---- MODULE Spec2Model ----
(***************************************************************************)
(* Model of webapp.py: the IMDb scraping pipeline of the Streamlit app.    *)
(*                                                                         *)
(* Texts (URLs, numeric texts, tab labels) are sequences of characters, so *)
(* that validation and parsing are computed on characters, as the Python   *)
(* code does.  Pages are modelled by the elements the code looks up in     *)
(* them.                                                                   *)
(***************************************************************************)
EXTENDS Integers, Sequences, FiniteSets, TLC

VARIABLES
    pc,                        \* position of the script run
    url_input,                 \* text of the sidebar input (line 283)
    html_data,                 \* handler: what scrape_data returned for the root page
    requests,                  \* requests.get calls issued so far, in order
    errors,                    \* st.error messages shown so far, in order
    exc,                       \* uncaught exception that ended the run, or "None"
    overall_series_data,       \* parse_data: [series_rating, series_votes, show_name]
    seasontabs,                \* parse_data: labels of the season tabs found
    seasons,                   \* parse_data: the sequence iterated by line 85
    poster_url,                \* parse_data: poster_url (line 75), None before it
    sidx,                      \* number of elements of seasons consumed by line 85
    episodes,                  \* parse_data: episode blocks of the current season page
    eidx,                      \* number of elements of episodes consumed by line 90
    cumulative_episode_number, \* parse_data: running counter (line 82)
    series_episode_data,       \* parse_data: records appended so far (line 83)
    toast,                     \* whether 'Data scraped!' was shown (line 294)
    df                         \* what was handed to visualize_data (line 296)

vars == <<pc, url_input, html_data, requests, errors, exc, overall_series_data,
          seasontabs, seasons, poster_url, sidx, episodes, eidx, cumulative_episode_number,
          series_episode_data, toast, df>>

-----------------------------------------------------------------------------
(* Bounds of the model *)

\* largest integer a season tab is labelled with
MaxSeasons == 2
\* largest number of season tabs on the episodes-index page
MaxTabs == 2
\* largest number of episode blocks on one season page
MaxBlocks == 2

-----------------------------------------------------------------------------
(* Texts.  A text is a sequence of characters, and a character is a string: *)
(* a printable ASCII character is written as itself, any other character,  *)
(* and the quotation mark, the backslash and the grave accent, as its code  *)
(* point: U+ and at least four hexadecimal digits ("U+0009" is the tab,     *)
(* "U+0661" the Arabic-Indic digit one).                                    *)

\* the characters of code points 32 to 126
Ascii ==
    <<" ", "!", "U+0022", "#", "$", "%", "&", "'", "(", ")", "*", "+", ",", "-", ".", "/",
      "0", "1", "2", "3", "4", "5", "6", "7", "8", "9", ":", ";", "<", "=", ">", "?",
      "@", "A", "B", "C", "D", "E", "F", "G", "H", "I", "J", "K", "L", "M", "N", "O",
      "P", "Q", "R", "S", "T", "U", "V", "W", "X", "Y", "Z", "[", "U+005C", "]", "^", "_",
      "U+0060", "a", "b", "c", "d", "e", "f", "g", "h", "i", "j", "k", "l", "m", "n", "o",
      "p", "q", "r", "s", "t", "u", "v", "w", "x", "y", "z", "{", "|", "}", "~">>

HexDigits == <<"0", "1", "2", "3", "4", "5", "6", "7", "8", "9", "A", "B", "C", "D", "E", "F">>

\* n in hexadecimal, on at least width digits
RECURSIVE HexText(_, _)
HexText(n, width) ==
    IF n = 0 /\ width <= 0 THEN ""
    ELSE HexText(n \div 16, width - 1) \o HexDigits[(n % 16) + 1]

\* chr(n): the character of code point n
Char(n) == IF n \in 32..126 THEN Ascii[n - 31] ELSE "U+" \o HexText(n, 4)

Digits == <<"0", "1", "2", "3", "4", "5", "6", "7", "8", "9">>

\* the characters of [0-9]
AsciiDigits == {Digits[i] : i \in 1..10}

\* code points of the digit zero of every script of Unicode 15 (the version
\* of Python 3.12 and 3.13); the digits one to nine of the script follow it
DigitZeros ==
    {48, 1632, 1776, 1984, 2406, 2534, 2662, 2790, 2918, 3046, 3174, 3302, 3430, 3558,
     3664, 3792, 3872, 4160, 4240, 6112, 6160, 6470, 6608, 6784, 6800, 6992, 7088, 7232,
     7248, 42528, 43216, 43264, 43472, 43504, 43600, 44016, 65296, 66720, 68912, 69734,
     69872, 69942, 70096, 70384, 70736, 70864, 71248, 71360, 71472, 71904, 72016, 72784,
     73040, 73120, 73552, 92768, 92864, 93008, 120782, 120792, 120802, 120812, 120822, 123200,
     123632, 124144, 125264, 130032}

\* the ten digits of each script
DigitRows == {[d \in 0..9 |-> Char(z + d)] : z \in DigitZeros}

\* the decimal digits: what \d matches and what int() and float() read as digits
DigitChars == UNION {{row[d] : d \in 0..9} : row \in DigitRows}

\* the value of a decimal digit
DigitVal(c) ==
    IF c \in AsciiDigits THEN (CHOOSE i \in 1..10 : Digits[i] = c) - 1
    ELSE CHOOSE d \in 0..9 : \E row \in DigitRows : row[d] = c

LowerCase == <<"a", "b", "c", "d", "e", "f", "g", "h", "i", "j", "k", "l", "m",
               "n", "o", "p", "q", "r", "s", "t", "u", "v", "w", "x", "y", "z">>

UpperCase == <<"A", "B", "C", "D", "E", "F", "G", "H", "I", "J", "K", "L", "M",
               "N", "O", "P", "Q", "R", "S", "T", "U", "V", "W", "X", "Y", "Z">>

\* the ASCII letters
Letters == {LowerCase[i] : i \in 1..26} \cup {UpperCase[i] : i \in 1..26}

\* an ASCII capital as its small letter, any other character as itself
Lower(c) ==
    IF \E i \in 1..26 : UpperCase[i] = c
    THEN LowerCase[CHOOSE i \in 1..26 : UpperCase[i] = c]
    ELSE c

\* the sequence f[1], ..., f[n], each element computed once
Elements(f, n) == SubSeq(f, 1, n)

\* text.lower() on a text whose capitals are ASCII
LowerText(text) == Elements([i \in 1..Len(text) |-> Lower(text[i])], Len(text))

\* the characters str.strip() removes and \s matches (str.isspace)
Whitespace ==
    {Char(n) : n \in (9..13) \cup (28..32) \cup {133, 160, 5760} \cup (8192..8202)
                        \cup {8232, 8233, 8239, 8287, 12288}}

\* the characters int() and float() ignore around a number
NumberSpace == Whitespace \ {Char(n) : n \in 28..31}

\* Python's None, and a value that is not None
None == <<>>

Some(x) == <<x>>

\* c in text
Contains(text, c) == \E i \in 1..Len(text) : text[i] = c

\* text.find(c, start): index (from 1) of the first c at or after start, 0 if none
Find(text, c, start) ==
    IF \E i \in start..Len(text) : text[i] = c
    THEN CHOOSE i \in start..Len(text) :
            /\ text[i] = c
            /\ \A j \in start..(i - 1) : text[j] # c
    ELSE 0

\* the character at position i of text, "" when there is none
At(text, i) == IF i \in 1..Len(text) THEN text[i] ELSE ""

\* text[a:b + 1]: the characters of text at positions a to b that it holds
Slice(text, a, b) == SubSeq(text, a, IF b > Len(text) THEN Len(text) ELSE b)

\* number of characters of the set chars text holds in a row from position i on
Run(text, i, chars) ==
    CHOOSE n \in 0..Len(text) :
        /\ \A k \in i..(i + n - 1) : At(text, k) \in chars
        /\ At(text, i + n) \notin chars

\* text.lstrip(chars)
lstrip(text, chars) == SubSeq(text, Run(text, 1, chars) + 1, Len(text))

\* text.rstrip(chars)
rstrip(text, chars) ==
    LET n == CHOOSE k \in 0..Len(text) :
                 /\ \A j \in (Len(text) - k + 1)..Len(text) : text[j] \in chars
                 /\ At(text, Len(text) - k) \notin chars
    IN  SubSeq(text, 1, Len(text) - n)

\* text.strip()
strip(text) == rstrip(lstrip(text, Whitespace), Whitespace)

\* s[:-1] and s[-1]
Front(s) == SubSeq(s, 1, Len(s) - 1)

Last(s) == s[Len(s)]

\* text.find(sub, start) for a text sub: index (from 1) of its first
\* occurrence at or after start, 0 if none
IndexOf(text, sub, start) ==
    LET at == {i \in start..(Len(text) - Len(sub) + 1) :
                   SubSeq(text, i, i + Len(sub) - 1) = sub}
    IN  IF at = {} THEN 0 ELSE CHOOSE i \in at : \A k \in at : i <= k

\* text.split(sep): the parts of text between the occurrences of sep
RECURSIVE split(_, _)
split(text, sep) ==
    LET i == IndexOf(text, sep, 1)
    IN  IF i = 0 THEN <<text>>
        ELSE <<SubSeq(text, 1, i - 1)>> \o split(SubSeq(text, i + Len(sep), Len(text)), sep)

\* the natural a text of at most nine decimal digits (of any script) writes
RECURSIVE DigitsToInt(_)
DigitsToInt(ds) ==
    IF ds = <<>> THEN 0 ELSE 10 * DigitsToInt(Front(ds)) + DigitVal(Last(ds))

-----------------------------------------------------------------------------
(* is_valid_imdb_url, lines 20-30 *)

\* 'episodes/?season=' (lines 21 and 57)
EpisodesSuffix ==
    <<"e", "p", "i", "s", "o", "d", "e", "s", "/", "?", "s", "e", "a", "s", "o", "n", "=">>

\* the literal part of url_pattern before \d+ (line 23)
PatternHead ==
    <<"h", "t", "t", "p", "s", ":", "/", "/", "w", "w", "w", ".", "i", "m", "d", "b", ".", "c",
      "o", "m", "/", "t", "i", "t", "l", "e", "/", "t", "t">>

\* the literal part of url_pattern after \d+ (line 23)
PatternTail ==
    <<"/", "e", "p", "i", "s", "o", "d", "e", "s", "/", "?", "s", "e", "a", "s", "o", "n",
      "=">>

\* re.match(url_pattern, url) is not None: ^ head, one or more decimal digits
\* of any script, tail, $ (the text ends with '=', so that $ is its end)
re_match_url_pattern(url) ==
    LET n == Len(url) - Len(PatternHead) - Len(PatternTail)
    IN  /\ n >= 1
        /\ SubSeq(url, 1, Len(PatternHead)) = PatternHead
        /\ \A i \in (Len(PatternHead) + 1)..(Len(PatternHead) + n) : url[i] \in DigitChars
        /\ SubSeq(url, Len(PatternHead) + n + 1, Len(url)) = PatternTail

\* urllib.parse.scheme_chars
SchemeChars == Letters \cup AsciiDigits \cup {"+", "-", "."}

\* urllib.parse._WHATWG_C0_CONTROL_OR_SPACE: what urlsplit strips in front
C0ControlOrSpace == {Char(n) : n \in 0..32}

\* urllib.parse._UNSAFE_URL_BYTES_TO_REMOVE: tab, carriage return and line
\* feed, which urlsplit removes wherever they stand
UnsafeUrlChars == {Char(9), Char(13), Char(10)}

\* the characters whose NFKC form holds one of / ? # @ : (Unicode 15), for
\* which urllib.parse._checknetloc raises
NetlocInvalid ==
    {Char(n) : n \in {8263, 8264, 8265, 8448, 8449, 8453, 8454, 10868, 65043, 65046,
                      65109, 65110, 65119, 65131, 65283, 65295, 65306, 65311, 65312}}

\* the characters of a hextet (ipaddress._BaseV6._HEX_DIGITS)
HexChars == AsciiDigits \cup {"a", "b", "c", "d", "e", "f", "A", "B", "C", "D", "E", "F"}

\* ipaddress.IPv4Address raises nothing on these octets: four of them, each
\* of one to three ASCII digits, without a leading zero and at most 255
IsOctets(octets) ==
    /\ Len(octets) = 4
    /\ \A i \in 1..4 :
          /\ octets[i] # <<>>
          /\ \A k \in 1..Len(octets[i]) : octets[i][k] \in AsciiDigits
          /\ Len(octets[i]) <= 3
          /\ (octets[i] = <<"0">> \/ octets[i][1] # "0")
          /\ DigitsToInt(octets[i]) <= 255

\* ipaddress.IPv4Address(text) raises nothing
IsIPv4(text) ==
    /\ text # <<>>
    /\ ~Contains(text, "/")
    /\ IsOctets(split(text, <<".">>))

\* ipaddress._BaseV6._parse_hextet(text) raises nothing
IsHextet(text) ==
    /\ text # <<>>
    /\ Len(text) <= 4
    /\ \A k \in 1..Len(text) : text[k] \in HexChars

\* ipaddress._BaseV6._ip_int_from_string raises nothing on these parts (an
\* IPv4 address at the end already replaced by two hextets): at most one
\* '::', which stands for one hextet or more and may only touch an end when
\* nothing stands beyond it, and eight hextets in all
IsHextets(parts) ==
    LET n == Len(parts)
        skips == {i \in 2..(n - 1) : parts[i] = <<>>}
        skip_index == CHOOSE i \in skips : TRUE
        parts_hi == IF parts[1] = <<>> THEN skip_index - 2 ELSE skip_index - 1
        parts_lo == IF parts[n] = <<>> THEN n - skip_index - 1 ELSE n - skip_index
    IN  /\ n <= 9
        /\ Cardinality(skips) <= 1
        /\ IF skips # {}
           THEN /\ parts[1] = <<>> => parts_hi = 0
                /\ parts[n] = <<>> => parts_lo = 0
                /\ 8 - (parts_hi + parts_lo) >= 1
                /\ \A i \in 1..parts_hi : IsHextet(parts[i])
                /\ \A i \in (n - parts_lo + 1)..n : IsHextet(parts[i])
           ELSE /\ n = 8
                /\ \A i \in 1..n : IsHextet(parts[i])

\* the same on the parts between the colons, the last of which may be an
\* IPv4 address standing for two hextets
IsIPv6Parts(split_parts) ==
    /\ Len(split_parts) >= 3
    /\ IF Contains(Last(split_parts), ".")
       THEN /\ IsIPv4(Last(split_parts))
            /\ IsHextets(Front(split_parts) \o <<<<"0">>, <<"0">>>>)
       ELSE IsHextets(split_parts)

\* ipaddress.IPv6Address(text) raises nothing: an optional scope after '%',
\* then the parts between the colons
IsIPv6(text) ==
    LET pct == Find(text, "%", 1)
        addr == IF pct = 0 THEN text ELSE Slice(text, 1, pct - 1)
        scope_id == IF pct = 0 THEN <<>> ELSE Slice(text, pct + 1, Len(text))
    IN  /\ ~Contains(text, "/")
        /\ pct # 0 => (scope_id # <<>> /\ ~Contains(scope_id, "%"))
        /\ addr # <<>>
        /\ IsIPv6Parts(split(addr, <<":">>))

\* netloc.partition('[')[2].partition(']')[0] of urlsplit
bracketed_host(netloc) ==
    LET rest == Slice(netloc, Find(netloc, "[", 1) + 1, Len(netloc))
        close == Find(rest, "]", 1)
    IN  IF close = 0 THEN rest ELSE Slice(rest, 1, close - 1)

\* urllib.parse._check_bracketed_host(hostname) raises nothing: an IPvFuture
\* address (v, hex digits, a point, something) or an IPv6 address
check_bracketed_host(hostname) ==
    IF At(hostname, 1) = "v"
    THEN LET n == Run(hostname, 2, HexChars)
         IN  n >= 1 /\ At(hostname, n + 2) = "." /\ Len(hostname) >= n + 3
    ELSE IsIPv6(hostname)

\* what urlsplit does with the netloc it split off: the ValueError raised on
\* a netloc with one bracket only, with a bracketed host that is no IPv6 or
\* IPvFuture address, or with a character that NFKC turns into a delimiter
CheckNetloc(scheme, netloc) ==
    [raised |-> \/ Contains(netloc, "[") # Contains(netloc, "]")
                \/ /\ Contains(netloc, "[")
                   /\ ~check_bracketed_host(bracketed_host(netloc))
                \/ \E k \in 1..Len(netloc) : netloc[k] \in NetlocInvalid,
     scheme |-> scheme,
     netloc |-> netloc]

\* urllib.parse._splitnetloc(rest, 2) when rest starts with '//': the netloc
\* ends before the first of / ? #
SplitNetloc(scheme, rest) ==
    LET hasNetloc == Len(rest) >= 2 /\ rest[1] = "/" /\ rest[2] = "/"
        ends == {Find(rest, c, 3) : c \in {"/", "?", "#"}} \ {0}
        delim == IF ends = {} THEN Len(rest) + 1
                 ELSE CHOOSE d \in ends : \A e \in ends : d <= e
    IN  CheckNetloc(scheme, IF hasNetloc THEN SubSeq(rest, 3, delim - 1) ELSE <<>>)

\* the scheme of urlsplit: what stands before the first colon when it starts
\* with an ASCII letter and holds scheme characters only, in small letters
SplitScheme(url) ==
    LET i == Find(url, ":", 1)
        hasScheme == /\ i >= 2
                     /\ url[1] \in Letters
                     /\ \A j \in 1..(i - 1) : url[j] \in SchemeChars
    IN  IF hasScheme
        THEN SplitNetloc(LowerText(SubSeq(url, 1, i - 1)), SubSeq(url, i + 1, Len(url)))
        ELSE SplitNetloc(<<>>, url)

\* urlparse(url) as line 25 uses it, with the urlsplit of Python 3.11 and 3.12
\* (that of 3.13 also refuses text next to a bracketed host): control
\* characters and blanks in front are stripped, tab, carriage return and line
\* feed removed, then the scheme and the netloc split off
urlparse(url) ==
    SplitScheme(SelectSeq(lstrip(url, C0ControlOrSpace), LAMBDA c : c \notin UnsafeUrlChars))

\* lines 26-30 for the result of line 25: "True", "False", or the ValueError
\* of urlparse
MatchParsed(url, parsed_url) ==
    IF parsed_url.raised THEN "ValueError"
    ELSE IF ~(parsed_url.scheme # <<>> /\ parsed_url.netloc # <<>>) THEN "False"
    ELSE IF re_match_url_pattern(url) THEN "True" ELSE "False"

\* is_valid_imdb_url(url): "True", "False", or the exception that escapes it
is_valid_imdb_url(url) == MatchParsed(url \o EpisodesSuffix, urlparse(url \o EpisodesSuffix))

\* The texts the user may type: a lead (nothing or a blank), a scheme, a
\* separator, a host and a path combined, and texts with characters outside
\* ASCII, a tab or capitals
UrlHosts ==
    {<<"w", "w", "w", ".", "i", "m", "d", "b", ".", "c", "o", "m">>, <<"e", "x", "a", "m", "p",
      "l", "e", ".", "c", "o", "m">>, <<"[", "w", "w", "w", ".", "i", "m", "d", "b", ".", "c",
      "o", "m">>, <<>>,
     <<"[", "w", "w", "w", ".", "i", "m", "d", "b", ".", "c", "o", "m", "]">>,
     <<"[", ":", ":", "1", "]">>, <<"[", "v", "1", ".", "x", "]">>, <<"[", "]">>}

UrlPaths ==
    {<<"/", "t", "i", "t", "l", "e", "/", "t", "t", "1", "2", "3", "4", "5", "6", "7", "/">>,
             <<"/", "t", "i", "t", "l", "e", "/", "t", "t", "1", "2", "3", "4", "5", "6", "7">>,
             <<"/", "t", "i", "t", "l", "e", "/", "t", "t", "/">>,
             <<"/", "t", "i", "t", "l", "e", "/", "a", "b", "1", "2", "/">>,
             <<"/", "t", "i", "t", "l", "e", "/", "t", "t", "1", "2", "/", "x", "/">>}

\* 'https://www.imdb.com'
ImdbOrigin ==
    <<"h", "t", "t", "p", "s", ":", "/", "/", "w", "w", "w", ".", "i", "m", "d", "b", ".", "c",
      "o", "m">>

\* 'https://www.imdb.com/title/tt' and U+0661, U+FF12, '/': an id written in
\* Arabic-Indic and fullwidth digits
UnicodeIdUrl ==
    ImdbOrigin \o <<"/", "t", "i", "t", "l", "e", "/", "t", "t", "U+0661", "U+FF12", "/">>

\* texts with a character whose NFKC form holds a delimiter in the host
\* (U+2100, U+FF1A), a tab in front of a bracket, a tab inside a bracketed
\* host, a tab inside the path, a line feed at the end, and a scheme in capitals
UrlOthers ==
    {UnicodeIdUrl,
     ImdbOrigin \o <<"U+2100", "/", "t", "i", "t", "l", "e", "/", "t", "t", "1", "/">>,
     <<"h", "t", "t", "p", "s", ":", "/", "/", "U+FF1A", "/">>,
     <<"/", "U+0009", "/", "[", "x">>,
     <<"h", "t", "t", "p", "s", ":", "/", "/", "[", "U+0009", ":", ":", "1", "]", "/">>,
     ImdbOrigin \o <<"/", "t", "i", "U+0009", "t", "l", "e", "/", "t", "t", "1", "/">>,
     ImdbOrigin \o <<"/", "t", "i", "t", "l", "e", "/", "t", "t", "1", "/", "U+000A">>,
     <<"H", "T", "T", "P", "S", ":", "/", "/", "w", "w", "w", ".", "i", "m", "d", "b", ".", "c",
       "o", "m", "/", "t", "i", "t", "l", "e", "/", "t", "t", "1", "/">>}

UrlInputs ==
    {l \o s \o c \o h \o p :
        l \in {<<>>, <<" ">>},
        s \in {<<"h", "t", "t", "p", "s">>, <<"h", "t", "t", "p">>, <<"f", "t", "p">>, <<>>},
        c \in {<<":", "/", "/">>, <<>>},
        h \in UrlHosts,
        p \in UrlPaths}
      \cup UrlOthers
-----------------------------------------------------------------------------
(* Numbers: Python's int and float on texts.  An int is a TLC integer when  *)
(* its magnitude is below 2^31, else its sign and its bits.  A float is an  *)
(* IEEE-754 double: its class, its sign, its significand (bits, most        *)
(* significant first, no zero bit at the end) and a binary exponent; the    *)
(* magnitude of a finite one is mant * 2^exp.  Naturals are computed on     *)
(* sequences of bits, or of limbs of ten bits, most significant first.      *)

\* bits of the significand of a double (float, lines 16 and 18)
MantissaBits == 53
\* exponent of the largest power of two a double holds
MaxExponent == 1023
\* exponent of the smallest power of two a double holds as a normal number
MinExponent == -1022

RECURSIVE Pow10(_)
Pow10(n) == IF n = 0 THEN 1 ELSE 10 * Pow10(n - 1)

RECURSIVE Pow2(_)
Pow2(n) == IF n = 0 THEN 1 ELSE 2 * Pow2(n - 1)

Zeros(k) == Elements([i \in 1..k |-> 0], k)

\* f[lo] + ... + f[hi], summed by halves
RECURSIVE Sum(_, _, _)
Sum(f, lo, hi) ==
    IF lo > hi THEN 0
    ELSE IF lo = hi THEN f[lo]
    ELSE Sum(f, lo, (lo + hi) \div 2) + Sum(f, ((lo + hi) \div 2) + 1, hi)

BitsToInt(b) == Sum([i \in 1..Len(b) |-> b[i] * Pow2(Len(b) - i)], 1, Len(b))

LimbsToBits(limbs) ==
    Elements([i \in 1..(10 * Len(limbs)) |->
                 (limbs[((i - 1) \div 10) + 1] \div Pow2(9 - ((i - 1) % 10))) % 2],
             10 * Len(limbs))

\* the bits b, padded in front to whole limbs, as limbs
BitsToLimbs(b) ==
    LET n == (Len(b) + 9) \div 10
        padded == Zeros(10 * n - Len(b)) \o b
    IN  Elements([j \in 1..n |-> BitsToInt(SubSeq(padded, 10 * j - 9, 10 * j))], n)

\* a sequence of bits or of limbs without the zeros it starts with
StripZeros(b) ==
    IF \E i \in 1..Len(b) : b[i] # 0
    THEN SubSeq(b, CHOOSE i \in 1..Len(b) : b[i] # 0 /\ \A j \in 1..(i - 1) : b[j] = 0, Len(b))
    ELSE <<>>

\* b + 1 on bits
AddOne(b) ==
    IF \E i \in 1..Len(b) : b[i] = 0
    THEN LET z == CHOOSE i \in 1..Len(b) : b[i] = 0 /\ \A j \in (i + 1)..Len(b) : b[j] = 1
         IN  Elements([i \in 1..Len(b) |-> IF i < z THEN b[i] ELSE IF i = z THEN 1 ELSE 0],
                      Len(b))
    ELSE <<1>> \o Zeros(Len(b))

\* the same natural with what each element holds above a limb moved one
\* place up, for elements below 2^30
Carry(s) ==
    Elements([i \in 1..(Len(s) + 1) |->
                 (IF i = 1 THEN 0 ELSE s[i - 1] % 1024)
                     + (IF i > Len(s) THEN 0 ELSE s[i] \div 1024)],
             Len(s) + 1)

\* the limbs of the natural s writes, for elements below 2 * 1024 - 1: a
\* place receives a carry when a place below it overflows and every place
\* between the two is full
Ripple(s) ==
    LET carry(i) == \E j \in (i + 1)..Len(s) :
                        s[j] >= 1024 /\ \A k \in (i + 1)..(j - 1) : s[k] = 1023
    IN  Elements([i \in 1..(Len(s) + 1) |->
                     IF i = 1 THEN (IF carry(0) THEN 1 ELSE 0)
                     ELSE (s[i - 1] + (IF carry(i - 1) THEN 1 ELSE 0)) % 1024],
                 Len(s) + 1)

\* the limbs of the natural a sequence of elements below 2^30 writes
Normalize(s) == StripZeros(Ripple(Carry(Carry(Carry(s)))))

\* limbs * c, for a natural c <= 10^6
MulLimbs(limbs, c) ==
    Normalize(Elements([i \in 1..Len(limbs) |-> limbs[i] * c], Len(limbs)))

\* a + b on limbs
AddLimbs(a, b) ==
    LET n == IF Len(a) > Len(b) THEN Len(a) ELSE Len(b)
        x == Zeros(n - Len(a)) \o a
        y == Zeros(n - Len(b)) \o b
    IN  Normalize(Elements([i \in 1..n |-> x[i] + y[i]], n))

\* a <= b on limbs that do not start with zero
LessEq(a, b) ==
    IF Len(a) # Len(b) THEN Len(a) < Len(b)
    ELSE \A i \in 1..Len(a) : (\A j \in 1..(i - 1) : a[j] = b[j]) => a[i] <= b[i]

\* whether place i lends in a - y, on limbs of one length: a place below it
\* falls short and every place between the two is level
Borrow(a, y, i) ==
    \E j \in (i + 1)..Len(a) : a[j] < y[j] /\ \A k \in (i + 1)..(j - 1) : a[k] = y[k]

\* a - y on limbs of one length, for a >= y
SubAligned(a, y) ==
    StripZeros(Elements([i \in 1..Len(a) |->
                            (a[i] + 1024 - y[i] - (IF Borrow(a, y, i) THEN 1 ELSE 0)) % 1024],
                        Len(a)))

\* a - b on limbs, for a >= b
SubLimbs(a, b) == SubAligned(a, Zeros(Len(a) - Len(b)) \o b)

\* a * b on limbs, for fewer than 1024 limbs each
BigMul(a, b) ==
    IF a = <<>> \/ b = <<>> THEN <<>>
    ELSE Normalize(Elements([k \in 1..(Len(a) + Len(b) - 1) |->
                LET lo == IF k > Len(b) THEN k + 1 - Len(b) ELSE 1
                    hi == IF k > Len(a) THEN Len(a) ELSE k
                IN  Sum([i \in lo..hi |-> a[i] * b[k + 1 - i]], lo, hi)],
            Len(a) + Len(b) - 1))

\* 10^k as limbs
RECURSIVE Pow10Limbs(_)
Pow10Limbs(k) ==
    IF k <= 9 THEN Normalize(<<Pow10(k)>>)
    ELSE BigMul(Pow10Limbs(k \div 2), Pow10Limbs(k - (k \div 2)))

\* the natural a sequence of decimal digits (of any script) writes, as limbs
RECURSIVE DigitsToLimbs(_)
DigitsToLimbs(ds) ==
    IF Len(ds) <= 9 THEN Normalize(<<DigitsToInt(ds)>>)
    ELSE LET h == Len(ds) \div 2
         IN  AddLimbs(BigMul(DigitsToLimbs(SubSeq(ds, 1, h)), Pow10Limbs(Len(ds) - h)),
                      DigitsToLimbs(SubSeq(ds, h + 1, Len(ds))))

\* the bits of the natural a sequence of decimal digits writes
DigitsToBits(ds) == StripZeros(LimbsToBits(DigitsToLimbs(ds)))

\* the largest q in low..(low + 2 * step - 1) with q * d <= n, on limbs n and d
RECURSIVE QuotDigit(_, _, _, _)
QuotDigit(n, d, low, step) ==
    IF step = 0 THEN low
    ELSE IF LessEq(MulLimbs(d, low + step), n) THEN QuotDigit(n, d, low + step, step \div 2)
    ELSE QuotDigit(n, d, low, step \div 2)

\* quotient (one limb for each limb of rest) and remainder of the natural
\* rem \o rest by d, for limbs rem < d
RECURSIVE DivLimbs(_, _, _)
DivEmit(digit, next) == [q |-> <<digit>> \o next.q, r |-> next.r]

DivDigit(n, digit, rest, d) ==
    DivEmit(digit, DivLimbs(SubLimbs(n, MulLimbs(d, digit)), rest, d))

DivStep(n, rest, d) == DivDigit(n, QuotDigit(n, d, 0, 512), rest, d)

DivLimbs(rem, rest, d) ==
    IF rest = <<>> THEN [q |-> <<>>, r |-> rem]
    ELSE DivStep(StripZeros(rem \o <<Head(rest)>>), Tail(rest), d)

\* the Python int of sign neg and magnitude bits
IntValue(neg, bits) ==
    IF Len(bits) <= 31
    THEN (IF neg THEN 0 - BitsToInt(bits) ELSE BitsToInt(bits))
    ELSE [neg |-> neg, bits |-> bits]

\* the finite double of sign neg and magnitude mant * 2^exp, infinity, not a number
Double(neg, mant, exp) == [class |-> "finite", neg |-> neg, mant |-> mant, exp |-> exp]

Infinity(neg) == [class |-> "inf", neg |-> neg, mant |-> <<>>, exp |-> 0]

NaN == [class |-> "nan", neg |-> FALSE, mant |-> <<>>, exp |-> 0]

\* the same magnitude with no zero bit at the end of its significand
Normal(mant, exp) ==
    IF \A i \in 1..Len(mant) : mant[i] = 0 THEN [mant |-> <<>>, exp |-> 0]
    ELSE LET n == CHOOSE i \in 1..Len(mant) :
                     mant[i] = 1 /\ \A k \in (i + 1)..Len(mant) : mant[k] = 0
         IN  [mant |-> SubSeq(mant, 1, n), exp |-> exp + Len(mant) - n]

\* The double nearest to b * 2^exp (with `sticky`: plus a non-zero part below
\* the last bit of b), ties to even, for bits b that start with 1: the
\* significand has MantissaBits bits, fewer below the normal range, and a
\* magnitude above the largest double is infinity
RoundDouble(neg, b, sticky, exp) ==
    IF b = <<>> THEN Double(neg, <<>>, 0)
    ELSE LET top == exp + Len(b) - 1
             wide == IF top >= MinExponent THEN MantissaBits
                     ELSE MantissaBits - (MinExponent - top)
         IN  IF wide < 0 THEN Double(neg, <<>>, 0)
             ELSE IF Len(b) <= wide
             THEN LET x == Normal(b, exp)
                  IN  IF top > MaxExponent THEN Infinity(neg) ELSE Double(neg, x.mant, x.exp)
             ELSE LET mant0 == SubSeq(b, 1, wide)
                      rest == sticky \/ \E i \in (wide + 2)..Len(b) : b[i] = 1
                      up == b[wide + 1] = 1 /\ (rest \/ (wide > 0 /\ mant0[wide] = 1))
                      x == Normal(IF up THEN AddOne(mant0) ELSE mant0, exp + Len(b) - wide)
                  IN  IF x.mant # <<>> /\ x.exp + Len(x.mant) - 1 > MaxExponent
                      THEN Infinity(neg)
                      ELSE Double(neg, x.mant, x.exp)

\* the double nearest to (n / d) * 1024^cut with `below`, for limbs n that
\* are seven more than those of d
RoundQuotient(neg, x, below, cut) ==
    RoundDouble(neg, StripZeros(LimbsToBits(x.q)), below \/ x.r # <<>>, 10 * cut)

\* the double nearest to n / d: n is cut or extended to seven limbs more
\* than d has, and what is cut off only tells whether the quotient is exact
NearestQuotient(neg, n, d) ==
    RoundQuotient(neg,
        DivLimbs(SubSeq(n \o Zeros(Len(d) + 7 - Len(n)), 1, Len(d) - 1),
                 SubSeq(n \o Zeros(Len(d) + 7 - Len(n)), Len(d), Len(d) + 7), d),
        \E i \in (Len(d) + 8)..Len(n) : n[i] # 0,
        Len(n) - (Len(d) + 7))

\* the double nearest to n * p for limbs n and p when up, to n / p otherwise
Scaled(neg, n, p, up) ==
    IF up THEN RoundDouble(neg, StripZeros(LimbsToBits(BigMul(n, p))), FALSE, 0)
    ELSE NearestQuotient(neg, n, p)

\* the double nearest to m * 10^e, for decimal digits m that do not start
\* with zero and an integer e: the product when e >= 0, else the quotient
NearestDouble(neg, m, e) ==
    IF m = <<>> THEN Double(neg, <<>>, 0)
    ELSE IF e + Len(m) > 310 THEN Infinity(neg)
    ELSE IF e + Len(m) < -330 THEN Double(neg, <<>>, 0)
    ELSE Scaled(neg, DigitsToLimbs(m), Pow10Limbs(IF e >= 0 THEN e ELSE 0 - e), e >= 0)

\* x * c in double arithmetic, for a double x and a natural c <= 10^6
FloatMul(x, c) ==
    IF x.class # "finite" \/ x.mant = <<>> THEN x
    ELSE RoundDouble(x.neg, StripZeros(LimbsToBits(MulLimbs(BitsToLimbs(x.mant), c))),
                     FALSE, x.exp)

\* int(x) of a double: truncation toward zero, OverflowError for an infinity,
\* ValueError for a nan
FloatToInt(x) ==
    IF x.class = "inf" THEN [kind |-> "OverflowError"]
    ELSE IF x.class = "nan" THEN [kind |-> "ValueError"]
    ELSE IF x.exp >= 0
    THEN [kind |-> "int", val |-> IntValue(x.neg /\ x.mant # <<>>, x.mant \o Zeros(x.exp))]
    ELSE IF 0 - x.exp >= Len(x.mant) THEN [kind |-> "int", val |-> 0]
    ELSE [kind |-> "int", val |-> IntValue(x.neg, SubSeq(x.mant, 1, Len(x.mant) + x.exp))]

\* text with '?' in place of every underscore that does not stand between
\* two digits, and without the underscores that do
Underscored(text) ==
    LET marked == [i \in 1..Len(text) |->
                     IF text[i] = "_" /\ ~(At(text, i - 1) \in DigitChars
                                             /\ At(text, i + 1) \in DigitChars)
                     THEN "?" ELSE text[i]]
    IN  SelectSeq(marked, LAMBDA c : c # "_")

\* the natural a text of digits writes, a million for a text of more than six
\* digits after its zeros
Saturated(ds) ==
    LET d == lstrip(ds, {row[0] : row \in DigitRows})
    IN  IF Len(d) > 6 THEN 1000000 ELSE BitsToInt(DigitsToBits(d))

\* the float of digits with at most one point and an exponent: body holds n1
\* digits, then, if n2 > 0 or a point follows them, a point and n2 digits
FloatNumber(neg, body, n1, n2) ==
    LET stop == n1 + n2 + (IF At(body, n1 + 1) = "." THEN 1 ELSE 0)
        expo == At(body, stop + 1) \in {"e", "E"}
        estart == stop + 2 + (IF At(body, stop + 2) \in {"+", "-"} THEN 1 ELSE 0)
        n3 == IF expo THEN Run(body, estart, DigitChars) ELSE 0
        written == IF expo THEN Saturated(SubSeq(body, estart, estart + n3 - 1)) ELSE 0
    IN  IF /\ n1 + n2 >= 1
           /\ IF expo THEN n3 >= 1 /\ estart + n3 - 1 = Len(body) ELSE stop = Len(body)
        THEN [kind |-> "float",
              val |-> NearestDouble(neg,
                          lstrip(SubSeq(body, 1, n1) \o SubSeq(body, n1 + 2, n1 + 1 + n2),
                                 {row[0] : row \in DigitRows}),
                          (IF At(body, stop + 2) = "-" THEN 0 - written ELSE written) - n2)]
        ELSE [kind |-> "ValueError"]

\* the float of digits that may go on with a point and digits: body starts
\* with n1 digits
FloatFraction(neg, body, n1) ==
    FloatNumber(neg, body, n1,
                IF At(body, n1 + 1) = "." THEN Run(body, n1 + 2, DigitChars) ELSE 0)

\* the float of a text after its sign: inf, infinity or nan in any case, or
\* a number
FloatBody(neg, body) ==
    IF LowerText(body) \in {<<"i", "n", "f">>, <<"i", "n", "f", "i", "n", "i", "t", "y">>}
    THEN [kind |-> "float", val |-> Infinity(neg)]
    ELSE IF LowerText(body) = <<"n", "a", "n">> THEN [kind |-> "float", val |-> NaN]
    ELSE FloatFraction(neg, body, Run(body, 1, DigitChars))

\* text without the white space around it and with its underscores marked
NumberText(text) == Underscored(rstrip(lstrip(text, NumberSpace), NumberSpace))

\* t without the sign in front of it
Unsigned(t) == IF At(t, 1) \in {"+", "-"} THEN Tail(t) ELSE t

\* float(text): white space around the number is ignored; a sign, then inf,
\* infinity or nan in any case, or digits with at most one point and at least
\* one digit, and an exponent; an underscore may stand between two digits
float(text) == FloatBody(At(NumberText(text), 1) = "-", Unsigned(NumberText(text)))

\* the int of a text after its sign: digits only, and at least one
IntBody(neg, body) ==
    IF body # <<>> /\ \A i \in 1..Len(body) : body[i] \in DigitChars
    THEN [kind |-> "int", val |-> IntValue(neg /\ DigitsToBits(body) # <<>>, DigitsToBits(body))]
    ELSE [kind |-> "ValueError"]

\* int(text): white space around the number is ignored; a sign, then digits;
\* an underscore may stand between two digits
int(text) == IntBody(At(NumberText(text), 1) = "-", Unsigned(NumberText(text)))

(* text_to_num, lines 11-18 *)

\* dic (line 13)
dic(mag) == IF mag = "K" THEN 1000 ELSE 1000000

\* line 16 for the float of num: the ValueError of float, or the int of the
\* product
IntOfProduct(num, c) ==
    IF num.kind = "ValueError" THEN num ELSE FloatToInt(FloatMul(num.val, c))

text_to_num(text) ==
    IF text = <<>> THEN [kind |-> "IndexError"]
    ELSE IF Last(text) \in {"K", "M"} THEN IntOfProduct(float(Front(text)), dic(Last(text)))
    ELSE float(text)

-----------------------------------------------------------------------------
(* The texts of an episode block and what lines 93-117 do to them. *)

\* the separator of lines 95 and 99, as the source file holds it: a blank,
\* U+00E2, U+02C6, U+2122, a blank
TitleSeparator == <<" ", "U+00E2", "U+02C6", "U+2122", " ">>

\* epnum (line 78) matched at position i of text: the length of the match of
\* S[0-9]+\.E([0-9]+) and its group, length 0 when there is no match
epnum_match(text, i) ==
    LET n1 == Run(text, i + 1, AsciiDigits)
        n2 == Run(text, i + n1 + 3, AsciiDigits)
    IN  IF /\ At(text, i) = "S"
           /\ n1 >= 1
           /\ At(text, i + n1 + 1) = "."
           /\ At(text, i + n1 + 2) = "E"
           /\ n2 >= 1
        THEN [len |-> n1 + n2 + 3, group |-> Slice(text, i + n1 + 3, i + n1 + n2 + 2)]
        ELSE [len |-> 0, group |-> <<>>]

\* epnum.sub('\\1', text) (line 95): every match replaced by its group, the
\* matches taken from left to right
RECURSIVE epnum_sub(_)
epnum_sub(text) ==
    IF \A i \in 1..Len(text) : epnum_match(text, i).len = 0 THEN text
    ELSE LET i == CHOOSE k \in 1..Len(text) :
                     /\ epnum_match(text, k).len > 0
                     /\ \A h \in 1..(k - 1) : epnum_match(text, h).len = 0
             m == epnum_match(text, i)
         IN  SubSeq(text, 1, i - 1) \o m.group
                 \o epnum_sub(SubSeq(text, i + m.len, Len(text)))

\* re.search(ratingmatch, rating) (lines 79 and 107): None, or group 1 of the
\* leftmost match of (\d+(?:\.\d+)?), \d being a decimal digit of any script
search_ratingmatch(rating) ==
    IF \A i \in 1..Len(rating) : rating[i] \notin DigitChars THEN None
    ELSE LET i == CHOOSE k \in 1..Len(rating) :
                     rating[k] \in DigitChars /\ \A h \in 1..(k - 1) : rating[h] \notin DigitChars
             n1 == Run(rating, i, DigitChars)
             n2 == Run(rating, i + n1 + 1, DigitChars)
         IN  IF At(rating, i + n1) = "." /\ n2 >= 1
             THEN Some(Slice(rating, i, i + n1 + n2))
             ELSE Some(Slice(rating, i, i + n1 - 1))

\* re.search(votesmatch, rating) (lines 80 and 113): None, or group 1 of the
\* leftmost match of \(([^)]*)\)
search_votesmatch(rating) ==
    LET open == Find(rating, "(", 1)
        close == IF open = 0 THEN 0 ELSE Find(rating, ")", open + 1)
    IN  IF close = 0 THEN None ELSE Some(Slice(rating, open + 1, close - 1))

\* the abbreviated day names %a stands for, in small letters
Weekdays ==
    {<<"m", "o", "n">>, <<"t", "u", "e">>, <<"w", "e", "d">>, <<"t", "h", "u">>,
     <<"f", "r", "i">>, <<"s", "a", "t">>, <<"s", "u", "n">>}

\* the abbreviated month names %b stands for, in small letters
Months ==
    <<<<"j", "a", "n">>, <<"f", "e", "b">>, <<"m", "a", "r">>, <<"a", "p", "r">>,
      <<"m", "a", "y">>, <<"j", "u", "n">>, <<"j", "u", "l">>, <<"a", "u", "g">>,
      <<"s", "e", "p">>, <<"o", "c", "t">>, <<"n", "o", "v">>, <<"d", "e", "c">>>>

\* what %d matches before the comma: 3[0-1], [1-2]\d, 0[1-9] or [1-9]
\* ( [1-9] after the white space of the format is one of these)
IsDayText(dd) ==
    \/ Len(dd) = 1 /\ dd[1] \in AsciiDigits \ {"0"}
    \/ /\ Len(dd) = 2
       /\ \/ dd[1] = "3" /\ dd[2] \in {"0", "1"}
          \/ dd[1] \in {"1", "2"} /\ dd[2] \in DigitChars
          \/ dd[1] = "0" /\ dd[2] \in AsciiDigits \ {"0"}

IsLeap(year) == year % 4 = 0 /\ (year % 100 # 0 \/ year % 400 = 0)

DaysIn(month, year) ==
    IF month = 2 THEN (IF IsLeap(year) THEN 29 ELSE 28)
    ELSE IF month \in {4, 6, 9, 11} THEN 30 ELSE 31

\* the date of a text that matched the format: the ValueError of a year 0
\* and of a day the month does not have
DateOf(year, month, day) ==
    IF year >= 1 /\ day <= DaysIn(month, year)
    THEN [kind |-> "datetime", year |-> year, month |-> month, day |-> day]
    ELSE [kind |-> "ValueError"]

\* strptime from the day on: pb is where the name of the month starts, pd
\* where the day starts, comma where the comma after the day stands
DayAndYear(text, pb, pd, comma) ==
    LET dd == Slice(text, pd, comma - 1)
        s3 == Run(text, comma + 1, Whitespace)
        yy == Slice(text, comma + 1 + s3, Len(text))
    IN  IF /\ comma > 0
           /\ IsDayText(dd)
           /\ s3 >= 1
           /\ Len(yy) = 4
           /\ \A k \in 1..Len(yy) : yy[k] \in DigitChars
        THEN DateOf(DigitsToInt(yy),
                    CHOOSE m \in 1..12 : LowerText(Slice(text, pb, pb + 2)) = Months[m],
                    DigitsToInt(dd))
        ELSE [kind |-> "ValueError"]

\* strptime from the month on: pb is where its name starts, pd where the
\* white space after it ends
MonthAndDay(text, pb, pd) ==
    IF /\ \E m \in 1..12 : LowerText(Slice(text, pb, pb + 2)) = Months[m]
       /\ pd > pb + 3
    THEN DayAndYear(text, pb, pd, Find(text, ",", pd))
    ELSE [kind |-> "ValueError"]

\* strptime from the white space after the day of the week on: pb is where
\* it ends
Month(text, pb) == MonthAndDay(text, pb, pb + 3 + Run(text, pb + 3, Whitespace))

\* datetime.strptime(text, '%a, %b %d, %Y') (line 115): the date, or the
\* ValueError of a text that does not match the format or names no day.  The
\* format matches in any case of the letters; a blank of the format matches
\* one or more white-space characters; the year is four decimal digits; the
\* day of the week is not compared with the date.
strptime(text) ==
    IF /\ LowerText(Slice(text, 1, 3)) \in Weekdays
       /\ At(text, 4) = ","
       /\ Run(text, 5, Whitespace) >= 1
    THEN Month(text, 5 + Run(text, 5, Whitespace))
    ELSE [kind |-> "ValueError"]

-----------------------------------------------------------------------------
(* Pages and responses *)

\* what requests.get and raise_for_status (lines 35-36) may do
FetchStatuses == {"ok", "HTTPError", "RequestException", "Exception"}

Responses(pages) ==
    {[status |-> "ok", text |-> p] : p \in pages}
        \cup {[status |-> s, text |-> None] : s \in FetchStatuses \ {"ok"}}

\* scrape_data, lines 32-43: the text, or None after the st.error of the handler
\* that caught the failure
scrape_data(resp) ==
    CASE resp.status = "ok" -> [html |-> Some(resp.text), error |-> <<>>]
      [] resp.status = "HTTPError" -> [html |-> None, error |-> <<"HTTP Error">>]
      [] resp.status = "RequestException" -> [html |-> None, error |-> <<"Error">>]
      [] OTHER -> [html |-> None, error |-> <<"An unexpected error occurred">>]

\* The root page: whether its text is empty, and the texts of the rating and
\* votes elements looked up by lines 48 and 53 (None: no such element)
RootPage(empty, rating, votes) == [empty |-> empty, rating |-> rating, votes |-> votes]

RootPages ==
    {RootPage(TRUE, None, None),
     RootPage(FALSE, Some(<<"8", ".", "4">>), Some(<<"1", "2", "K">>)),
     RootPage(FALSE, None, Some(<<"1", "2", "K">>)),
     RootPage(FALSE, Some(<<"8">>), None),
     RootPage(FALSE, Some(<<"8">>), Some(<<"a", "b", "c">>))}

\* root pages whose rating and votes are written in Arabic-Indic digits (8.4
\* and 12K), the second with the Arabic decimal separator U+066B for the point
OtherRootPages ==
    {RootPage(FALSE, Some(<<"U+0668", ".", "U+0664">>), Some(<<"U+0661", "U+0662", "K">>)),
     RootPage(FALSE, Some(<<"U+0668", "U+066B", "U+0664">>), Some(<<"U+0661", "U+0662", "K">>))}

\* The episodes-index page: the labels of its season tabs (line 60), the text
\* of its show-name heading (line 69) and the img element line 74 finds, with
\* its src attribute (None: no such element or attribute)
IndexPage(tabs, show_name, poster) ==
    [tabs |-> tabs, show_name |-> show_name, poster |-> poster]

TabLabels == {<<Digits[n + 1]>> : n \in 1..MaxSeasons} \cup {<<"E", "x", "t", "r", "a">>}

TabLists == UNION {[1..n -> TabLabels] : n \in 0..MaxTabs}

ShowName == <<"S", "h", "o", "w">>

PosterSrc == <<"p", ".", "j", "p", "g">>

\* what comes with the tabs: the heading and the poster, the heading alone, the
\* heading and a poster without src, or no heading
IndexHeads ==
    {<<Some(ShowName), Some([src |-> Some(PosterSrc)])>>,
     <<Some(ShowName), None>>,
     <<Some(ShowName), Some([src |-> None])>>,
     <<None, None>>}

\* The index pages: every list of tabs with the heading and the poster, and
\* the one tab '1' with each of the heads
IndexPages ==
    {IndexPage(t, Some(ShowName), Some([src |-> Some(PosterSrc)])) : t \in TabLists}
        \cup {IndexPage(<<<<"1">>>>, h[1], h[2]) : h \in IndexHeads}

\* index pages whose only tab is labelled 2 in Arabic-Indic digits, or 2 in
\* fullwidth digits between no-break spaces
OtherIndexPages ==
    {IndexPage(<<t>>, Some(ShowName), Some([src |-> Some(PosterSrc)])) :
        t \in {<<"U+0662">>, <<"U+00A0", "U+FF12", "U+00A0">>}}

\* An episode block (line 88): the texts of the elements looked up by lines
\* 93, 103, 115 and 117 (None: no such element)
Block(title, rating, air_date, description) ==
    [title |-> title, rating |-> rating, air_date |-> air_date, description |-> description]

\* The title texts (line 93): 'S1.E1', the separator of the source, 'Pilot';
\* 'S1.E1', a blank, U+2219, a blank, 'Pilot'; 'S1.E1'; the number of the
\* episode as an Arabic-Indic digit, without S and E; and the numbers as
\* fullwidth digits
Titles ==
    [Source |-> <<"S", "1", ".", "E", "1">> \o TitleSeparator \o <<"P", "i", "l", "o", "t">>,
     Bullet |-> <<"S", "1", ".", "E", "1", " ", "U+2219", " ", "P", "i", "l", "o", "t">>,
     Bare |-> <<"S", "1", ".", "E", "1">>,
     Digit |-> <<"U+0663">> \o TitleSeparator \o <<"P", "i", "l", "o", "t">>,
     Wide |-> <<"S", "U+FF11", ".", "E", "U+FF11">> \o TitleSeparator
                \o <<"P", "i", "l", "o", "t">>]

\* The rating texts (line 103): '8.5/10 (12K)'; 'Rate'; '8.5/10';
\* '8.5/10 (abc)'; '8.5/10 ()'; '8.5/10 (infK)'; 8.5 and 12 written in
\* Arabic-Indic digits; 'Rated ', U+0667, ' (1K)'; and the votes with the
\* Arabic decimal separator U+066B for the point
Ratings ==
    [Full |-> <<"8", ".", "5", "/", "1", "0", " ", "(", "1", "2", "K", ")">>,
     Word |-> <<"R", "a", "t", "e">>,
     Bare |-> <<"8", ".", "5", "/", "1", "0">>,
     WordVotes |-> <<"8", ".", "5", "/", "1", "0", " ", "(", "a", "b", "c", ")">>,
     NoVotes |-> <<"8", ".", "5", "/", "1", "0", " ", "(", ")">>,
     Infinite |-> <<"8", ".", "5", "/", "1", "0", " ", "(", "i", "n", "f", "K", ")">>,
     Digit |-> <<"U+0668", ".", "U+0665", "/", "1", "0", " ", "(", "U+0661", "U+0662", "K", ")">>,
     Rated |-> <<"R", "a", "t", "e", "d", " ", "U+0667", " ", "(", "1", "K", ")">>,
     Separator |-> <<"U+0668", "/", "1", "0", " ", "(", "U+0661", "U+066B", "U+0662", "K", ")">>]

\* The air-date texts (line 115): 'Sun, Jan 20, 2008'; '2008';
\* 'Sat, Feb 30, 2008'; 'sun,', a tab, 'JAN', two blanks, '5,', a no-break
\* space and 2008 in fullwidth digits; and 'Sun, Jan ', U+0663, ', 2008', the
\* day as an Arabic-Indic digit
Dates ==
    [Full |-> <<"S", "u", "n", ",", " ", "J", "a", "n", " ", "2", "0", ",", " ", "2", "0", "0",
                "8">>,
     Year |-> <<"2", "0", "0", "8">>,
     NoDay |-> <<"S", "a", "t", ",", " ", "F", "e", "b", " ", "3", "0", ",", " ", "2", "0", "0",
                 "8">>,
     Loose |-> <<"s", "u", "n", ",", "U+0009", "J", "A", "N", " ", " ", "5", ",", "U+00A0",
                 "U+FF12", "U+FF10", "U+FF10", "U+FF18">>,
     DigitDay |-> <<"S", "u", "n", ",", " ", "J", "a", "n", " ", "U+0663", ",", " ", "2", "0",
                    "0", "8">>]

\* 'Plot'
Description == <<"P", "l", "o", "t">>

\* the block every field of which extracts
FullBlock ==
    Block(Some(Titles.Source), Some(Ratings.Full), Some(Dates.Full), Some(Description))

\* the blocks on which lines 93-121 raise nothing: the full block, and the
\* full block without its rating element
PassingBlocks == {FullBlock, [FullBlock EXCEPT !.rating = None]}

\* further blocks on which lines 93-121 raise nothing: texts with digits
\* outside ASCII, a date in other letter cases and white space, and a block
\* of such texts without its rating element
OtherPassingBlocks ==
    {Block(Some(Titles.Digit), Some(Ratings.Digit), Some(Dates.Loose), Some(Description)),
     [FullBlock EXCEPT !.rating = Some(Ratings.Rated)],
     Block(Some(Titles.Digit), None, Some(Dates.Loose), Some(Description))}

\* further blocks on which one of lines 93-117 raises: digits outside ASCII
\* where the code reads ASCII digits only, and a separator float does not read
OtherRaisingBlocks ==
    {[FullBlock EXCEPT !.title = Some(Titles.Wide)],
     [FullBlock EXCEPT !.title = Some(Titles.Wide), !.rating = None],
     [FullBlock EXCEPT !.rating = Some(Ratings.Separator)],
     [FullBlock EXCEPT !.air_date = Some(Dates.DigitDay)]}

\* the blocks on which one of lines 93-117 raises: the full block with one
\* element missing or holding another text (two elements for the last two)
RaisingBlocks ==
    {[FullBlock EXCEPT !.title = None],
     [FullBlock EXCEPT !.title = Some(Titles.Bullet)],
     [FullBlock EXCEPT !.title = Some(Titles.Bare)],
     [FullBlock EXCEPT !.rating = Some(Ratings.Word)],
     [FullBlock EXCEPT !.rating = Some(Ratings.Bare)],
     [FullBlock EXCEPT !.rating = Some(Ratings.WordVotes)],
     [FullBlock EXCEPT !.rating = Some(Ratings.NoVotes)],
     [FullBlock EXCEPT !.rating = Some(Ratings.Infinite)],
     [FullBlock EXCEPT !.air_date = None],
     [FullBlock EXCEPT !.air_date = Some(Dates.Year)],
     [FullBlock EXCEPT !.air_date = Some(Dates.NoDay)],
     [FullBlock EXCEPT !.description = None],
     [FullBlock EXCEPT !.title = None, !.rating = None],
     [FullBlock EXCEPT !.title = Some(Titles.Bare), !.rating = None]}

Blocks == PassingBlocks \cup RaisingBlocks \cup OtherPassingBlocks \cup OtherRaisingBlocks

\* sequences of at most n passing blocks
PassingPages(n) == UNION {[1..k -> PassingBlocks] : k \in 0..n}

\* The season pages: up to MaxBlocks blocks, a raising block being the last
\* of its page
SeasonPages ==
    PassingPages(MaxBlocks)
        \cup {Append(page, block) : page \in PassingPages(MaxBlocks - 1), block \in RaisingBlocks}

\* season pages of the further blocks: no block, one block, or one of the
\* passing blocks and one block
OtherSeasonPages ==
    {<<>>} \cup {<<block>> : block \in OtherPassingBlocks \cup OtherRaisingBlocks}
           \cup {<<first, block>> : first \in OtherPassingBlocks,
                                    block \in OtherPassingBlocks \cup OtherRaisingBlocks}

-----------------------------------------------------------------------------
(* parse_data, lines 45-123 *)

\* lines 49-52, and 108-111: the float of a text with a point, the int of
\* any other
Number(text) == IF Contains(text, ".") THEN float(text) ELSE int(text)

\* line 55 for the values of lines 48-53, or the exception that one of them
\* raised
RootData(series_rating, series_votes) ==
    IF series_rating.kind \notin {"int", "float"}
    THEN [exc |-> series_rating.kind, data |-> <<>>]
    ELSE IF series_votes.kind \notin {"int", "float"}
    THEN [exc |-> series_votes.kind, data |-> <<>>]
    ELSE [exc |-> "None", data |-> <<series_rating, series_votes>>]

\* lines 47-55: the exception raised, or overall_series_data
ParseRoot(html) ==
    IF html = None THEN [exc |-> "TypeError", data |-> <<>>]
    ELSE RootData(IF html[1].rating = None THEN [kind |-> "AttributeError"]
                  ELSE Number(strip(html[1].rating[1])),
                  IF html[1].votes = None THEN [kind |-> "AttributeError"]
                  ELSE text_to_num(strip(html[1].votes[1])))

\* range with its start ignored: 0, 1, ..., b - a - 1
rangeZeroBased(a, b) == [i \in 1..(b - a) |-> i - 1]

\* range(a, b) as the sequence the for statement iterates, for integers
\* below 2^31
range(a, b) == [i \in 1..(b - a) |-> a + i - 1]

\* lines 61-67: the season numbers of the tabs whose label is an integer
ParsedSeasons(tabs) ==
    LET ints == SelectSeq(tabs, LAMBDA tab : int(strip(tab)).kind = "int")
    IN  [i \in 1..Len(ints) |-> int(strip(ints[i])).val]

\* lines 61-75 for the page and the int of its last tab (line 68), or the
\* exception that line 68 raised
SeasonsOf(page, last) ==
    IF last.kind # "int"
    THEN [exc |-> last.kind, seasontabs |-> page.tabs, seasons |-> ParsedSeasons(page.tabs),
          show_name |-> None, poster_url |-> None]
    ELSE IF page.show_name = None
    THEN [exc |-> "AttributeError", seasontabs |-> page.tabs,
          seasons |-> range(1, last.val + 1),
          show_name |-> None, poster_url |-> None]
    ELSE IF page.poster # None /\ page.poster[1].src = None
    THEN [exc |-> "KeyError", seasontabs |-> page.tabs,
          seasons |-> range(1, last.val + 1),
          show_name |-> Some(strip(page.show_name[1])), poster_url |-> None]
    ELSE [exc |-> "None", seasontabs |-> page.tabs,
          seasons |-> range(1, last.val + 1),
          show_name |-> Some(strip(page.show_name[1])),
          poster_url |-> IF page.poster = None THEN Some("Image not found")
                         ELSE page.poster[1].src]

\* lines 59-75: the exception raised, and the locals as the lines reached
\* leave them (show_name and poster_url None when not yet assigned)
DiscoverSeasons(html) ==
    IF html = None
    THEN [exc |-> "TypeError", seasontabs |-> <<>>, seasons |-> <<>>,
          show_name |-> None, poster_url |-> None]
    ELSE SeasonsOf(html[1], IF html[1].tabs = <<>> THEN [kind |-> "IndexError"]
                            ELSE int(strip(Last(html[1].tabs))))

\* lines 86-88: the exception raised, or the episode blocks of the season page
FindEpisodes(html) ==
    IF html = None THEN [exc |-> "TypeError", episodes |-> <<>>]
    ELSE [exc |-> "None", episodes |-> html[1]]

\* what the body of the loop ends with (an exception, "break" or "append"),
\* whether line 97 was reached, and the record built
Outcome(end, counted, episode_data) ==
    [end |-> end, counted |-> counted, episode_data |-> episode_data]

\* lines 95-99 for the parts of the title and the int of the first of them,
\* or the exception that int raised
NumberAndTitle(parts, episode_number) ==
    IF episode_number.kind # "int"
    THEN [exc |-> episode_number.kind, counted |-> FALSE,
          episode_number |-> 0, title |-> <<>>]
    ELSE IF Len(parts) < 2
    THEN [exc |-> "IndexError", counted |-> TRUE,
          episode_number |-> episode_number.val, title |-> <<>>]
    ELSE [exc |-> "None", counted |-> TRUE,
          episode_number |-> episode_number.val, title |-> parts[2]]

\* lines 93-99: the exception raised and whether line 97 was reached, or the
\* episode number and the title
TitleFields(episode) ==
    IF episode.title = None
    THEN [exc |-> "AttributeError", counted |-> FALSE, episode_number |-> 0, title |-> <<>>]
    ELSE NumberAndTitle(split(strip(episode.title[1]), TitleSeparator),
                        int(epnum_sub(split(strip(episode.title[1]), TitleSeparator)[1])))

\* lines 113-121 for the values of lines 107-115, or the exceptions that
\* text_to_num and strptime raised
Record(episode, season, counter, fields, rating_value, votes, air_date) ==
    IF votes.kind \notin {"int", "float"} THEN Outcome(votes.kind, TRUE, <<>>)
    ELSE IF air_date.kind # "datetime" THEN Outcome(air_date.kind, TRUE, <<>>)
    ELSE IF episode.description = None THEN Outcome("AttributeError", TRUE, <<>>)
    ELSE Outcome("append", TRUE,
                 [season |-> season,
                  episode_number |-> fields.episode_number,
                  cumulative_episode_number |-> counter + 1,
                  title |-> fields.title,
                  air_date |-> air_date,
                  rating_value |-> rating_value,
                  votes |-> votes,
                  description |-> strip(episode.description[1])])

\* lines 107-121 for the rating text found at line 103
ExtractRated(episode, season, counter, fields, rating) ==
    IF search_ratingmatch(rating) = None THEN Outcome("AttributeError", TRUE, <<>>)
    ELSE IF search_votesmatch(rating) = None THEN Outcome("AttributeError", TRUE, <<>>)
    ELSE Record(episode, season, counter, fields,
                Number(search_ratingmatch(rating)[1]),
                text_to_num(search_votesmatch(rating)[1]),
                IF episode.air_date = None THEN [kind |-> "AttributeError"]
                ELSE strptime(strip(episode.air_date[1])))

\* the loop body after lines 93-99, with `pass` for the break of line 105 and
\* an empty rating text: a block without a rating element goes on to line 107
ExtractFieldsNoBreak(episode, season, counter, fields) ==
    IF fields.exc # "None" THEN Outcome(fields.exc, fields.counted, <<>>)
    ELSE IF episode.rating = None
    THEN ExtractRated(episode, season, counter, fields, <<>>)
    ELSE ExtractRated(episode, season, counter, fields, strip(episode.rating[1]))

\* the loop body after lines 93-99, with the try of line 102 around all of
\* lines 103-117 and a handler for any exception: a field that fails to
\* extract ends the season like a missing rating
ExtractFieldsCaught(episode, season, counter, fields) ==
    LET rated == ExtractRated(episode, season, counter, fields, strip(episode.rating[1]))
    IN  IF fields.exc # "None" THEN Outcome(fields.exc, fields.counted, <<>>)
        ELSE IF episode.rating = None THEN Outcome("break", TRUE, <<>>)
        ELSE IF rated.end # "append" THEN Outcome("break", TRUE, <<>>)
        ELSE rated

\* lines 100-121 for what lines 93-99 gave: the exception they raised, the
\* break of line 105 for a block without a rating element, or the rest
ExtractFields(episode, season, counter, fields) ==
    IF fields.exc # "None" THEN Outcome(fields.exc, fields.counted, <<>>)
    ELSE IF episode.rating = None THEN Outcome("break", TRUE, <<>>)
    ELSE ExtractRated(episode, season, counter, fields, strip(episode.rating[1]))

\* lines 93-121 on one block, for the season of line 85 and the value of
\* cumulative_episode_number before it
ExtractEpisode(episode, season, counter) ==
    ExtractFields(episode, season, counter, TitleFields(episode))

-----------------------------------------------------------------------------
(* The script run started by the 'Scrape Data' button, lines 286-300 *)

\* line 289 without the call: the scrape is entered for any URL
UrlAcceptedAlways(url) == TRUE

\* line 289
UrlAccepted(url) == is_valid_imdb_url(url) = "True"

\* line 292 without the test: parse_data is called with whatever was returned
HtmlTruthyAlways(html) == TRUE

\* line 292: the truth value of html_data
HtmlTruthy(html) == html # None /\ ~html[1].empty

\* The pages a title serves: the title whose id the user wrote in digits
\* outside ASCII serves the pages with such digits, any other title the rest
PagesOf(url, pages, others) == IF url = UnicodeIdUrl THEN others ELSE pages

Request(page, season, status) == [page |-> page, season |-> season, status |-> status]

Init ==
    /\ pc = "Idle"
    /\ url_input = <<>>
    /\ html_data = None
    /\ requests = <<>>
    /\ errors = <<>>
    /\ exc = "None"
    /\ overall_series_data = <<>>
    /\ seasontabs = <<>>
    /\ seasons = <<>>
    /\ poster_url = None
    /\ sidx = 0
    /\ episodes = <<>>
    /\ eidx = 0
    /\ cumulative_episode_number = 0
    /\ series_episode_data = <<>>
    /\ toast = FALSE
    /\ df = None

\* The user types a URL and presses the button (lines 283-288)
Click(urls) ==
    /\ pc = "Idle"
    /\ \E url \in urls : url_input' = url
    /\ pc' = "Validating"
    /\ UNCHANGED <<html_data, requests, errors, exc, overall_series_data, seasontabs, seasons,
                   poster_url, sidx, episodes, eidx, cumulative_episode_number,
                   series_episode_data, toast, df>>

\* lines 289, 299-300
Validate ==
    /\ pc = "Validating"
    /\ IF is_valid_imdb_url(url_input) = "ValueError"
       THEN pc' = "Crashed" /\ exc' = "ValueError" /\ errors' = errors
       ELSE IF UrlAccepted(url_input)
       THEN pc' = "FetchingRoot" /\ exc' = exc /\ errors' = errors
       ELSE /\ pc' = "Failed"
            /\ exc' = exc
            /\ errors' = Append(errors, "Invalid URL. Please enter a valid URL.")
    /\ UNCHANGED <<url_input, html_data, requests, overall_series_data, seasontabs, seasons,
                   poster_url, sidx, episodes, eidx, cumulative_episode_number,
                   series_episode_data, toast, df>>

\* lines 291-293 and 298, and lines 47-55 of parse_data
FetchRoot(pages) ==
    /\ pc = "FetchingRoot"
    /\ \E resp \in Responses(pages) :
        \E got \in {scrape_data(resp)} : \E parsed \in {ParseRoot(got.html)} :
            /\ html_data' = got.html
            /\ requests' = Append(requests, Request("root", 0, resp.status))
            /\ IF ~HtmlTruthy(got.html)
               THEN /\ errors' = (errors \o got.error) \o <<"Failed to scrape data.">>
                    /\ pc' = "Failed"
                    /\ UNCHANGED <<exc, overall_series_data>>
               ELSE IF parsed.exc # "None"
               THEN /\ errors' = errors \o got.error
                    /\ pc' = "Crashed"
                    /\ exc' = parsed.exc
                    /\ UNCHANGED overall_series_data
               ELSE /\ errors' = errors \o got.error
                    /\ pc' = "DiscoveringSeasons"
                    /\ overall_series_data' = parsed.data
                    /\ UNCHANGED exc
    /\ UNCHANGED <<url_input, seasontabs, seasons, poster_url, sidx, episodes, eidx,
                   cumulative_episode_number, series_episode_data, toast, df>>

\* lines 57-83
FetchIndex ==
    /\ pc = "DiscoveringSeasons"
    /\ \E resp \in Responses(PagesOf(url_input, IndexPages, OtherIndexPages)) :
        \E got \in {scrape_data(resp)} : \E found \in {DiscoverSeasons(got.html)} :
            /\ requests' = Append(requests, Request("index", 0, resp.status))
            /\ errors' = errors \o got.error
            /\ seasontabs' = found.seasontabs
            /\ seasons' = found.seasons
            /\ overall_series_data' =
                  IF found.show_name = None THEN overall_series_data
                  ELSE Append(overall_series_data, found.show_name[1])
            /\ poster_url' = found.poster_url
            /\ IF found.exc # "None"
               THEN pc' = "Crashed" /\ exc' = found.exc
               ELSE pc' = "ExtractingSeason" /\ exc' = exc
    /\ sidx' = 0
    /\ episodes' = <<>>
    /\ eidx' = 0
    /\ cumulative_episode_number' = 0
    /\ series_episode_data' = <<>>
    /\ UNCHANGED <<url_input, html_data, toast, df>>

\* line 85 taking the next season, and lines 86-88
FetchSeason ==
    /\ pc = "ExtractingSeason"
    /\ sidx < Len(seasons)
    /\ \E resp \in Responses(PagesOf(url_input, SeasonPages, OtherSeasonPages)) :
        LET season == seasons[sidx + 1]
            got == scrape_data(resp)
            found == FindEpisodes(got.html)
        IN  /\ requests' = Append(requests, Request("season", season, resp.status))
            /\ errors' = errors \o got.error
            /\ IF found.exc # "None"
               THEN pc' = "Crashed" /\ exc' = found.exc /\ UNCHANGED <<episodes, eidx>>
               ELSE /\ episodes' = found.episodes
                    /\ eidx' = 0
                    /\ exc' = exc
                    /\ pc' = IF found.episodes = <<>> THEN "ExtractingSeason"
                             ELSE "ExtractingEpisode"
    /\ sidx' = sidx + 1
    /\ UNCHANGED <<url_input, html_data, overall_series_data, seasontabs, seasons, poster_url,
                   cumulative_episode_number, series_episode_data, toast, df>>

\* line 90 taking the next block, and lines 93-121
Episode ==
    /\ pc = "ExtractingEpisode"
    /\ eidx < Len(episodes)
    /\ \E did \in {ExtractEpisode(episodes[eidx + 1], seasons[sidx],
                                  cumulative_episode_number)} :
           /\ eidx' = eidx + 1
           /\ cumulative_episode_number' =
                 IF did.counted THEN cumulative_episode_number + 1
                 ELSE cumulative_episode_number
           /\ CASE did.end = "append" ->
                    /\ series_episode_data' = Append(series_episode_data, did.episode_data)
                    /\ pc' = IF eidx + 1 < Len(episodes) THEN "ExtractingEpisode"
                             ELSE "ExtractingSeason"
                    /\ exc' = exc
                [] did.end = "break" ->
                    /\ pc' = "ExtractingSeason"
                    /\ UNCHANGED <<series_episode_data, exc>>
                [] OTHER ->
                    /\ pc' = "Crashed"
                    /\ exc' = did.end
                    /\ UNCHANGED series_episode_data
    /\ UNCHANGED <<url_input, html_data, requests, errors, overall_series_data, seasontabs,
                   seasons, poster_url, sidx, episodes, toast, df>>

\* line 85 with no season left, line 123, and lines 294-296 (visualize_data
\* reports an empty dataframe, lines 128-130)
Finish ==
    /\ pc = "ExtractingSeason"
    /\ sidx = Len(seasons)
    /\ toast' = TRUE
    /\ df' = Some(series_episode_data)
    /\ errors' = IF series_episode_data = <<>>
                 THEN Append(errors, "No data available for visualization.")
                 ELSE errors
    /\ pc' = "Done"
    /\ UNCHANGED <<url_input, html_data, requests, exc, overall_series_data, seasontabs,
                   seasons, poster_url, sidx, episodes, eidx, cumulative_episode_number,
                   series_episode_data>>

\* The script run is over; the next interaction runs the script from its top
Rerun ==
    /\ pc \in {"Done", "Failed", "Crashed"}
    /\ pc' = "Idle"
    /\ url_input' = <<>>
    /\ html_data' = None
    /\ requests' = <<>>
    /\ errors' = <<>>
    /\ exc' = "None"
    /\ overall_series_data' = <<>>
    /\ seasontabs' = <<>>
    /\ seasons' = <<>>
    /\ poster_url' = None
    /\ sidx' = 0
    /\ episodes' = <<>>
    /\ eidx' = 0
    /\ cumulative_episode_number' = 0
    /\ series_episode_data' = <<>>
    /\ toast' = FALSE
    /\ df' = None

Next ==
    \/ Click(UrlInputs)
    \/ Validate
    \/ FetchRoot(PagesOf(url_input, RootPages, OtherRootPages))
    \/ FetchIndex
    \/ FetchSeason
    \/ Episode
    \/ Finish
    \/ Rerun

Spec == Init /\ [][Next]_vars
-----------------------------------------------------------------------------
(* A second specification: the root page's votes text ranges over many     *)
(* numeric texts, and the run stops after line 53 has applied text_to_num. *)

\* largest number of digits before the point of a votes text
MaxIntDigits == 2
\* largest number of digits after the point of a votes text
MaxFracDigits == 4

NumDigits == {"3", "4", "5"}

\* texts float reads that are no plain decimals: digits outside ASCII, an
\* exponent, a sign, an underscore, white space, infinity and not-a-number,
\* and values beyond the range of a double
OtherNumTexts ==
    {<<"U+0661", "U+0662", "K">>, <<"U+FF13", ".", "U+0664", "M">>, <<"3", "e", "2", "K">>,
     <<"1", "E", "-", "3", "M">>, <<"-", "5", "K">>, <<"+", ".", "5", "M">>,
     <<"1", "_", "0", "K">>, <<"1", "_", "K">>, <<" ", "5", "U+00A0", "K">>,
     <<"5", "U+001F", "K">>, <<"i", "n", "f", "K">>, <<"-", "I", "n", "f", "i", "n", "i", "t", "y">>,
     <<"n", "a", "n">>, <<"n", "a", "n", "M">>, <<"1", "e", "4", "0", "0">>,
     <<"1", "e", "4", "0", "0", "K">>, <<"1", "e", "-", "4", "0", "0", "K">>,
     <<"3", "e", "3", "0", "M">>, <<"K">>, <<"0", "x", "1", "0">>}

DigitTexts(n) == UNION {[1..k -> NumDigits] : k \in 0..n}

NumTexts ==
    {i \o f \o s :
        i \in DigitTexts(MaxIntDigits),
        f \in {<<>>} \cup {<<".">> \o d : d \in DigitTexts(MaxFracDigits)},
        s \in {<<>>, <<"K">>, <<"M">>}}
      \cup {<<"1", "2", "K">>, <<"3", ".", "4", "M">>, <<"5", "7">>, <<"a", "b", "c">>}

VotesPages == {RootPage(FALSE, Some(<<"8">>), Some(t)) : t \in NumTexts}

OtherVotesPages == {RootPage(FALSE, Some(<<"8">>), Some(t)) : t \in OtherNumTexts}

NextNum ==
    \/ Click(UrlInputs)
    \/ Validate
    \/ FetchRoot(PagesOf(url_input, VotesPages, OtherVotesPages))
    \/ Rerun

SpecNum == Init /\ [][NextNum]_vars

-----------------------------------------------------------------------------
(* Properties *)

\* records of series_episode_data appended for season n
SeasonRecords(n) == SelectSeq(series_episode_data, LAMBDA r : r.season = n)

\* position of the first block without a rating element, 0 if every block has one
FirstUnrated(blocks) ==
    IF \E i \in 1..Len(blocks) : blocks[i].rating = None
    THEN CHOOSE i \in 1..Len(blocks) :
            blocks[i].rating = None /\ \A k \in 1..(i - 1) : blocks[k].rating # None
    ELSE 0

\* the title element of the block is there and lines 93-99 raise nothing on it
TitleExtracts(block) == TitleFields(block).exc = "None"

\* the block has a rating element and every field of it extracts
FieldsExtract(block) ==
    /\ TitleExtracts(block)
    /\ block.rating # None
    /\ ExtractRated(block, 1, 0, TitleFields(block), strip(block.rating[1])).end = "append"

\* the run is inside the loops of lines 85-121, on the page held in episodes
InSeason ==
    /\ sidx >= 1
    /\ \/ pc \in {"ExtractingEpisode", "ExtractingSeason", "Done"}
       \/ /\ pc = "Crashed"
          /\ eidx >= 1
          /\ exc \in {"AttributeError", "ValueError", "IndexError", "OverflowError"}

\* C1: the records of series_episode_data carry cumulative_episode_number
\* 1, 2, 3, ... in extraction order: each equals the number of records appended
\* before it plus one.
C1_CumulativeIsPosition ==
    \A i \in 1..Len(series_episode_data) :
        series_episode_data[i].cumulative_episode_number = i

\* C2: a season page whose fetch failed, after the root and the index were
\* fetched, contributes no record and does not end the run: no exception
\* escapes and the loop goes on to the next season or to Done.
C2_SeasonFetchFailureSkipped ==
    \A i \in 3..Len(requests) :
        requests[i].status # "ok" =>
            /\ exc = "None"
            /\ pc \in {"ExtractingSeason", "ExtractingEpisode", "Done"}
            /\ SeasonRecords(requests[i].season) = <<>>

\* the largest element of a non-empty sequence of naturals
Highest(ns) == CHOOSE n \in {ns[i] : i \in 1..Len(ns)} : \A i \in 1..Len(ns) : ns[i] <= n

\* C3: when the index page was fetched and at least one of its tab labels is an
\* integer, line 68 raises nothing and the seasons iterated are 1..M, M the
\* highest integer label.
C3_SeasonsUpToHighestLabel ==
    (/\ Len(requests) >= 2
     /\ requests[2].status = "ok"
     /\ ParsedSeasons(seasontabs) # <<>>)
        => /\ ~(Len(requests) = 2 /\ exc \in {"IndexError", "ValueError"})
           /\ seasons = range(1, Highest(ParsedSeasons(seasontabs)) + 1)

\* C4 as claimed: when block j is the first block of the season page without
\* a rating element, no block after j is taken, neither block j nor a later
\* one yields a record, and, every field of the blocks before it extracting,
\* the season ends with exactly j - 1 records and the run goes on to the next
\* season (or to Done) without an exception, whatever the title element of
\* block j holds.
C4_WhateverTheTitle ==
    LET j == FirstUnrated(episodes)
        n == Len(SeasonRecords(seasons[sidx]))
    IN  (InSeason /\ j > 0) =>
            /\ eidx <= j
            /\ n <= j - 1
            /\ (/\ eidx = j
                /\ \A k \in 1..(j - 1) : FieldsExtract(episodes[k]))
                  => /\ pc \in {"ExtractingSeason", "Done"}
                     /\ exc = "None"
                     /\ n = j - 1

\* C4, amended: when block j is the first block of the season page without a
\* rating element, no block after j is taken, neither block j nor a later one
\* yields a record, and, the title of block j extracting (lines 93-99 raise
\* nothing on it) and every field of the blocks before it extracting, the
\* season ends with exactly j - 1 records and the run goes on to the next
\* season (or to Done) without an exception.
C4_FirstUnratedEndsSeason ==
    LET j == FirstUnrated(episodes)
        n == Len(SeasonRecords(seasons[sidx]))
    IN  (InSeason /\ j > 0) =>
            /\ eidx <= j
            /\ n <= j - 1
            /\ (/\ eidx = j
                /\ TitleExtracts(episodes[j])
                /\ \A k \in 1..(j - 1) : FieldsExtract(episodes[k]))
                  => /\ pc \in {"ExtractingSeason", "Done"}
                     /\ exc = "None"
                     /\ n = j - 1

C4_Witness ==
    /\ pc = "ExtractingSeason"
    /\ sidx = 1
    /\ Len(seasons) = 2
    /\ Len(episodes) = 2
    /\ FirstUnrated(episodes) = 1
    /\ TitleExtracts(episodes[1])
    /\ episodes[2] = FullBlock
    /\ eidx = 1
    /\ series_episode_data = <<>>

\* C5: when the fetch of the root page fails, the run ends Failed with 'Failed
\* to scrape data.' shown, the root request is the only request, nothing is
\* parsed, no dataset is handed to visualize_data and no toast is shown.
C5_RootFetchFailureFails ==
    (Len(requests) >= 1 /\ requests[1].status # "ok") =>
        /\ pc = "Failed"
        /\ exc = "None"
        /\ Len(requests) = 1
        /\ Len(errors) = 2
        /\ errors[2] = "Failed to scrape data."
        /\ overall_series_data = <<>>
        /\ series_episode_data = <<>>
        /\ df = None
        /\ ~toast

C5_Witness ==
    /\ pc = "Failed"
    /\ requests = <<Request("root", 0, "HTTPError")>>
    /\ errors = <<"HTTP Error", "Failed to scrape data.">>

\* C6: when is_valid_imdb_url returns False the run ends at once with the
\* invalid-URL error and without any request; and whenever a request has been
\* issued, is_valid_imdb_url returned True for the input URL.
C6_NoRequestWithoutValidation ==
    /\ requests # <<>> => is_valid_imdb_url(url_input) = "True"
    /\ (pc \notin {"Idle", "Validating"} /\ is_valid_imdb_url(url_input) = "False") =>
          /\ pc = "Failed"
          /\ requests = <<>>
          /\ errors = <<"Invalid URL. Please enter a valid URL.">>
          /\ df = None
          /\ ~toast

C6_Witness ==
    /\ pc = "Failed"
    /\ url_input = ImdbOrigin \o <<"/", "t", "i", "U+0009", "t", "l", "e", "/", "t", "t", "1", "/">>
    /\ is_valid_imdb_url(url_input) = "False"
    /\ requests = <<>>
    /\ errors = <<"Invalid URL. Please enter a valid URL.">>

\* what the claim calls a valid URL: https://www.imdb.com/title/tt<digits>/ and
\* nothing more, so that with the suffix appended the whole pattern is matched
C7_Matches(url) ==
    LET n == Len(url) - Len(PatternHead) - 1
    IN  /\ n >= 1
        /\ \A i \in 1..Len(PatternHead) : url[i] = PatternHead[i]
        /\ \A i \in 1..n : url[Len(PatternHead) + i] \in DigitChars
        /\ url[Len(url)] = "/"

\* C7: is_valid_imdb_url returns True exactly for the URLs that match, and
\* returns False, raising nothing, for every other text.
C7_ValidatorTotal ==
    pc \notin {"Idle", "Validating"} =>
        /\ is_valid_imdb_url(url_input) \in {"True", "False"}
        /\ is_valid_imdb_url(url_input) = "True" <=> C7_Matches(url_input)
        /\ ~(pc = "Crashed" /\ requests = <<>>)

\* the votes text of the root page that was fetched, as line 53 strips it
VotesText == strip(html_data[1].votes[1])

\* what the claim calls a valid decimal: digits 0-9 with at most one point
\* and at least one digit
IsDecimal(text) ==
    /\ \A i \in 1..Len(text) : text[i] \in AsciiDigits \cup {"."}
    /\ Cardinality({i \in 1..Len(text) : text[i] = "."}) <= 1
    /\ \E i \in 1..Len(text) : text[i] \in AsciiDigits

\* the digits of a decimal as a natural, and the number of digits after its point
DecMantissa(text) == DigitsToInt(SelectSeq(text, LAMBDA c : c # "."))

DecFracDigits(text) ==
    IF Contains(text, ".") THEN Len(text) - Find(text, ".", 1) ELSE 0

\* C8: for a votes text d K or d M, d a decimal, text_to_num returns d * 1000
\* or d * 1000000, a fractional product included; for a text that is a decimal
\* it returns the float of the whole text.
C8_ProductIsExact ==
    (/\ pc = "DiscoveringSeasons"
     /\ html_data # None
     /\ VotesText # <<>>
     /\ IsDecimal(IF Last(VotesText) \in {"K", "M"} THEN Front(VotesText) ELSE VotesText)) =>
        LET votes == overall_series_data[2]
            d == IF Last(VotesText) \in {"K", "M"} THEN Front(VotesText) ELSE VotesText
            m == DecMantissa(d)
            f == DecFracDigits(d)
            g == IF Last(VotesText) = "K" THEN 3 ELSE 6
        IN  IF Last(VotesText) \in {"K", "M"}
            THEN IF f <= g
                 THEN votes.kind = "int" /\ votes.val = m * Pow10(g - f)
                 ELSE votes.kind = "int" /\ votes.val * Pow10(f - g) = m
            ELSE votes = float(VotesText)

\* C9: a block that has a rating element and a field of which fails to extract
\* (a missing title, air-date or description element, an unparseable air date
\* or vote text, or any other text lines 93-117 raise on) ends the run with the
\* exception: nothing is handed to visualize_data and no toast is shown,
\* whatever had been extracted before.  So does every step on a block with a
\* rating element that appends no record.
C9_ExtractionFailureAborts ==
    /\ [][(/\ pc = "ExtractingEpisode"
           /\ episodes[eidx + 1].rating # None
           /\ ~FieldsExtract(episodes[eidx + 1]))
             => (/\ pc' = "Crashed"
                 /\ exc' \in {"AttributeError", "ValueError", "IndexError", "OverflowError"}
                 /\ series_episode_data' = series_episode_data
                 /\ df' = None
                 /\ ~toast')]_vars
    /\ [][(/\ pc = "ExtractingEpisode"
           /\ episodes[eidx + 1].rating # None
           /\ series_episode_data' = series_episode_data)
             => (/\ pc' = "Crashed"
                 /\ exc' # "None"
                 /\ df' = None
                 /\ ~toast')]_vars
    /\ [][pc = "Crashed" => (pc' = "Idle" /\ df' = None /\ ~toast')]_vars
    /\ [](pc = "Crashed" => (df = None /\ ~toast))

C9_Witness ==
    /\ pc = "Crashed"
    /\ exc = "ValueError"
    /\ url_input = UnicodeIdUrl
    /\ sidx = 2
    /\ Len(series_episode_data) >= 1
    /\ episodes[eidx] = [FullBlock EXCEPT !.rating = Some(Ratings.Separator)]
    /\ df = None
    /\ ~toast

\* the order the claim gives to the positions of a run
C10_Order ==
    {<<"Idle", "Validating">>, <<"Validating", "FetchingRoot">>,
     <<"FetchingRoot", "DiscoveringSeasons">>, <<"DiscoveringSeasons", "ExtractingSeason">>,
     <<"ExtractingSeason", "ExtractingEpisode">>, <<"ExtractingEpisode", "ExtractingSeason">>,
     <<"ExtractingSeason", "Done">>}
      \cup {<<p, q>> : p \in {"Validating", "FetchingRoot", "DiscoveringSeasons",
                             "ExtractingSeason", "ExtractingEpisode"},
                       q \in {"Failed", "Crashed"}}
      \cup {<<p, "Idle">> : p \in {"Done", "Failed", "Crashed"}}

\* C10: the requests of a run are, in this order and once each, the root page,
\* the index page, season 1, season 2, ...; a request is issued only between
\* seasons, when the blocks of the previous page are done with; the records are
\* in non-decreasing season order; and the run moves through its positions in
\* the order Idle, Validating, FetchingRoot, DiscoveringSeasons, the seasons,
\* then Done or a failure.
C10_Sequential ==
    /\ [](\A i \in 1..Len(requests) :
            /\ requests[i].page = (IF i = 1 THEN "root" ELSE IF i = 2 THEN "index" ELSE "season")
            /\ requests[i].season = (IF i <= 2 THEN 0 ELSE i - 2))
    /\ [](\A i \in 1..(Len(series_episode_data) - 1) :
            series_episode_data[i].season <= series_episode_data[i + 1].season)
    /\ [][requests' # requests =>
            \/ requests' = <<>>
            \/ /\ Len(requests') = Len(requests) + 1
               /\ pc \in {"FetchingRoot", "DiscoveringSeasons", "ExtractingSeason"}
               /\ (eidx = Len(episodes) \/ episodes[eidx].rating = None)]_vars
    /\ [][pc' # pc => <<pc, pc'>> \in C10_Order]_vars

C10_Witness ==
    /\ pc = "Done"
    /\ Len(requests) = 4
    /\ SeasonRecords(1) # <<>>
    /\ SeasonRecords(2) # <<>>

====
